---- MODULE Spec2Model ----
(***************************************************************************)
(* A model of the MySQL provider of tokenring-ai/mysql                     *)
(* (src/MySQLResource.ts): the pool the constructor creates, and the two   *)
(* asynchronous operations executeSql and showSchema, cut into one atomic  *)
(* step per stretch of code between two awaits.                            *)
(*                                                                         *)
(* The mysql2 pool and the MySQL server are collaborators outside the      *)
(* repository.  The pool is modelled by the behaviour the constructor      *)
(* configures (connectionLimit, waitForConnections: true, queueLimit: 0):  *)
(* getConnection queues the caller, the head of the queue is served as     *)
(* soon as an idle connection exists or a new one may be opened, release   *)
(* makes the connection idle again.  The server answers each statement     *)
(* from the database state db.                                             *)
(*                                                                         *)
(* Further specifications of the same module: CtorSpec applies the two     *)
(* constructors to the properties a caller may give, InstallSpec is the    *)
(* install of the plugin (src/plugin.ts, src/index.ts) against the host's  *)
(* DatabaseService, QueueSpec has more callers than connections, and       *)
(* VariantSpec is the start/stop variant of the provider (src/plugin.ts).  *)
(***************************************************************************)
EXTENDS Integers, Sequences, FiniteSets, TLC

VARIABLES
  props,         \* the argument the constructor was called with
  allowWrites,   \* this.allowWrites, set by super({allowWrites})
  pool,          \* this.pool: [config, all, free, queue]
  reachable,     \* whether the server accepts new connections
  db,            \* the database: table name -> what SHOW CREATE TABLE yields
  pc,            \* per call: the await the call is suspended at, or its end
  op,            \* per call: the method called
  sqlQuery,      \* per call: the argument of executeSql
  connection,    \* per call: the function-scope variable `let connection`
  tryConnection, \* per call: the block-scope `const connection` of executeSql's try
  tables,        \* per call: the rows of SHOW TABLES (showSchema)
  idx,           \* per call: position of the for-of loop over tables
  schema,        \* per call: the schema record being built (showSchema)
  result,        \* per call: the value the promise resolved with
  error,         \* per call: the error the promise rejected with
  sent,          \* per call: the statements submitted, as <<connection, statement>>
  nAcquired,     \* per call: how many getConnection calls resolved
  nReleased,     \* per call: how many release() calls were made
  nSettled,      \* per call: how many submitted statements have settled
  built,         \* whether the constructor has run
  config,        \* install: the configuration the plugin is installed with
  installPc,     \* install: where install and its callback stand
  service,       \* install: whether the host's DatabaseService is available
  registry,      \* install: DatabaseService's databases, name -> provider
  nConstructed,  \* install: how many providers were constructed
  lookups,       \* install: the lookups by name made, as <<name, found>>
  variant,       \* whether the provider is the start/stop variant (src/plugin.ts)
  connDb,        \* variant: connection -> the database it has selected
  databaseName   \* variant, per call: the argument of showSchema

\* the state of the plugin's install
installVars == <<config, installPc, service, registry, nConstructed, lookups>>

\* what no call on a provider changes
common == <<props, allowWrites, reachable, db, built, installVars, variant>>

\* what no call on the provider of src/MySQLResource.ts changes
fixed == <<common, connDb, databaseName>>

vars == <<props, allowWrites, pool, reachable, db, pc, op, sqlQuery, connection,
          tryConnection, tables, idx, schema, result, error, sent, nAcquired,
          nReleased, nSettled, built, installVars, variant, connDb,
          databaseName>>

-----------------------------------------------------------------------------
(* Bounds of the model *)

\* number of calls made on the provider in one run
NumCallers == 2

\* the connectionLimit values the constructor is given: 1..MaxLimit
MaxLimit == 2

\* the stress scenario: connectionLimit and number of concurrent callers
StressLimit == 2
StressCallers == 10

TableOrder == <<"A", "B">>
TableNames == {TableOrder[i] : i \in 1..Len(TableOrder)}

Undefined == "undefined"

\* the value of a connection variable that holds undefined
NoConnection == 0

-----------------------------------------------------------------------------
(* The statements callers pass to executeSql *)

SelectStatement == "SELECT 1"
WriteStatement == "INSERT INTO t VALUES (1)"
BadStatement == "SELECT * FROM nonexistent_table"

Statements == {SelectStatement, WriteStatement, BadStatement}

IsWrite(q) == q = WriteStatement

ShowTables == <<"SHOW TABLES;">>
ShowCreateTable(tableName) == <<"SHOW CREATE TABLE", tableName>>

\* the errors the driver raises
ConnectError == "ECONNREFUSED"
ConnectionLost == "PROTOCOL_CONNECTION_LOST"
NoConnectionsAvailable == "No connections available."
QueueLimitReached == "Queue limit reached."
NoSuchTable == "ER_NO_SUCH_TABLE"
AccessDenied == "ER_TABLEACCESS_DENIED_ERROR"

\* the error of fields.map when the driver reported no fields
TypeError == "TypeError: Cannot read properties of undefined (reading 'map')"

Sentinel == "Could not retrieve CREATE TABLE statement."

\* the text the server reports in the "Create Table" column
DDL(t) == IF t = "A" THEN "CREATE TABLE A (id int NOT NULL)"
          ELSE "CREATE TABLE B (id int NOT NULL)"

-----------------------------------------------------------------------------
(* The server *)

\* what SHOW CREATE TABLE yields for a table
TableKinds == {"absent", "ddl", "empty", "nofield", "blank", "denied"}

ListedTables(d) == {t \in TableNames : d[t] # "absent"}

\* the rows of SHOW TABLES, one single-column row per table, in name order
TableRows(d) ==
  LET Listed(t) == d[t] # "absent"
      names == SelectSeq(TableOrder, Listed)
  IN  [i \in 1..Len(names) |-> ("Tables_in_db" :> names[i])]

\* connection.execute / connection.query as the driver answers it:
\* [ok, rows, fields] on success (no fields when the statement yields no
\* result set), [ok |-> FALSE, error] when it raises
Execute(stmt, d) ==
  IF stmt = <<SelectStatement>>
    THEN [ok |-> TRUE, rows |-> <<("1" :> 1)>>, fields |-> <<[name |-> "1"]>>]
  ELSE IF stmt = <<WriteStatement>>
    THEN [ok |-> TRUE, rows |-> <<("affectedRows" :> 1)>>]
  ELSE IF stmt = <<BadStatement>>
    THEN [ok |-> FALSE, error |-> NoSuchTable]
  ELSE IF stmt = ShowTables
    THEN [ok |-> TRUE, rows |-> TableRows(d), fields |-> <<>>]
  ELSE LET t == stmt[2] IN
    CASE d[t] = "ddl" ->
           [ok |-> TRUE, rows |-> <<("Table" :> t) @@ ("Create Table" :> DDL(t))>>,
            fields |-> <<>>]
      [] d[t] = "nofield" ->
           [ok |-> TRUE, rows |-> <<("Table" :> t)>>, fields |-> <<>>]
      [] d[t] = "blank" ->
           [ok |-> TRUE, rows |-> <<("Table" :> t) @@ ("Create Table" :> "")>>,
            fields |-> <<>>]
      [] d[t] = "empty" ->
           [ok |-> TRUE, rows |-> <<>>, fields |-> <<>>]
      [] d[t] = "denied" ->
           [ok |-> FALSE, error |-> AccessDenied]
      [] OTHER ->
           [ok |-> FALSE, error |-> NoSuchTable]

-----------------------------------------------------------------------------
(* The pool *)

\* the defaults of the constructor's parameter
DefaultPort == 3306
DefaultConnectionLimit == 10

\* faulty variant of the options: the pool is told not to make callers wait
poolOptions_noWait(given) ==
  [host |-> given.host,
   port |-> IF "port" \in DOMAIN given THEN given.port ELSE 3306,
   user |-> given.user,
   password |-> given.password,
   database |-> given.databaseName,
   waitForConnections |-> FALSE,
   connectionLimit |-> IF "connectionLimit" \in DOMAIN given
                         THEN given.connectionLimit ELSE 10,
   queueLimit |-> 0]

\* faulty variant of the options: the port given is ignored
poolOptions_portIgnored(given) ==
  [host |-> given.host,
   port |-> 3306,
   user |-> given.user,
   password |-> given.password,
   database |-> given.databaseName,
   waitForConnections |-> TRUE,
   connectionLimit |-> IF "connectionLimit" \in DOMAIN given
                         THEN given.connectionLimit ELSE 10,
   queueLimit |-> 0]

\* the options object the constructor passes to createPool
poolOptions(given) ==
  [host |-> given.host,
   port |-> IF "port" \in DOMAIN given THEN given.port ELSE DefaultPort,
   user |-> given.user,
   password |-> given.password,
   database |-> given.databaseName,
   waitForConnections |-> TRUE,
   connectionLimit |-> IF "connectionLimit" \in DOMAIN given
                         THEN given.connectionLimit ELSE DefaultConnectionLimit,
   queueLimit |-> 0]

\* faulty variant of createPool: the given connectionLimit is not passed on
createPool_fixedLimit(options) ==
  [config |-> [options EXCEPT !.connectionLimit = DefaultConnectionLimit],
   all |-> 0, free |-> <<>>, queue |-> <<>>, closed |-> FALSE]

\* faulty variant of createPool: a first connection is opened at once
createPool_eager(options) ==
  [config |-> options, all |-> 1, free |-> <<1>>, queue |-> <<>>,
   closed |-> FALSE]

\* createPool(options): no connection is opened, nobody waits
createPool(options) ==
  [config |-> options, all |-> 0, free |-> <<>>, queue |-> <<>>,
   closed |-> FALSE]

\* constructor({allowWrites = false, ..., connectionLimit = 10})
MySQLResource(given) ==
  [allowWrites |-> IF "allowWrites" \in DOMAIN given THEN given.allowWrites
                   ELSE FALSE,
   pool |-> createPool(poolOptions(given))]

\* connections handed out and not given back
\* the field pool = null of the variant class (src/plugin.ts)
Null == [null |-> TRUE]
IsNull(p) == "null" \in DOMAIN p

\* the variant's constructor: the defaults are spread under the properties
propsWithDefaults(properties) ==
  properties @@ [port |-> DefaultPort, connectionLimit |-> DefaultConnectionLimit]

\* the options the variant's constructor passes to createPool; this.host,
\* this.port, ... are what the base class stored from propsWithDefaults
VariantPoolOptions(properties) ==
  LET this == propsWithDefaults(properties) IN
    [host |-> this.host,
     port |-> this.port,
     user |-> this.user,
     password |-> this.password,
     database |-> this.databaseName,
     waitForConnections |-> TRUE,
     connectionLimit |-> propsWithDefaults(properties).connectionLimit,
     queueLimit |-> 0]

\* the variant provider after its constructor
VariantMySQLResource(properties) ==
  [pool |-> createPool(VariantPoolOptions(properties))]

CheckedOut(p) == p.all - Len(p.free)

\* pool.getConnection(): the caller joins the queue of waiters
getConnection(p, c) == [p EXCEPT !.queue = Append(@, c)]

\* an idle connection exists, or a new one may be opened
CanServe(p) == Len(p.free) > 0 \/ p.all < p.config.connectionLimit

\* the pool turns the waiter at the head of its queue away: it is at its limit
\* and is configured not to wait, or to hold no more than queueLimit waiters
Rejects(p) ==
  /\ ~CanServe(p)
  /\ \/ ~p.config.waitForConnections
     \/ p.config.queueLimit > 0 /\ Len(p.queue) > p.config.queueLimit

\* the connection the head of the queue is given
Served(p) == IF Len(p.free) > 0 THEN p.free[Len(p.free)] ELSE p.all + 1

\* the pool after it served the head of the queue
Serve(p) ==
  IF Len(p.free) > 0
    THEN [p EXCEPT !.free = SubSeq(@, 1, Len(@) - 1), !.queue = Tail(@)]
    ELSE [p EXCEPT !.all = @ + 1, !.queue = Tail(@)]

\* a new connection has to be opened and the server does not accept it
ConnectFails(p) ==
  Len(p.free) = 0 /\ p.all < p.config.connectionLimit /\ ~reachable

\* the error getConnection rejects with
getConnectionError(p) ==
  IF Rejects(p)
    THEN IF p.config.waitForConnections THEN QueueLimitReached
         ELSE NoConnectionsAvailable
    ELSE ConnectError

\* connection.release()
release(p, k) == [p EXCEPT !.free = Append(@, k)]

-----------------------------------------------------------------------------
(* The initial state: the provider as the constructor leaves it *)

NoCall(callers) == [c \in callers |-> Undefined]

InitCalls(callers) ==
  /\ pc = [c \in callers |-> "idle"]
  /\ op = NoCall(callers)
  /\ sqlQuery = NoCall(callers)
  /\ connection = [c \in callers |-> NoConnection]
  /\ tryConnection = [c \in callers |-> NoConnection]
  /\ tables = [c \in callers |-> <<>>]
  /\ idx = [c \in callers |-> 0]
  /\ schema = [c \in callers |-> <<>>]
  /\ result = [c \in callers |-> <<>>]
  /\ error = NoCall(callers)
  /\ sent = [c \in callers |-> <<>>]
  /\ nAcquired = [c \in callers |-> 0]
  /\ nReleased = [c \in callers |-> 0]
  /\ nSettled = [c \in callers |-> 0]
  /\ databaseName = NoCall(callers)

\* the settings every provider of the model is given
Account ==
  [host |-> "localhost", user |-> "root", password |-> "password",
   databaseName |-> "myapp"]

\* the install of the plugin has no part in the run
NoInstall ==
  /\ config = <<>>
  /\ installPc = "idle"
  /\ service = FALSE
  /\ registry = <<>>
  /\ nConstructed = 0
  /\ lookups = {}

Construct(given) ==
  /\ built = TRUE
  /\ variant = FALSE
  /\ connDb = <<>>
  /\ props = given
  /\ allowWrites = MySQLResource(given).allowWrites
  /\ pool = MySQLResource(given).pool

Init ==
  /\ \E aw \in BOOLEAN, limit \in 1..MaxLimit :
       Construct(Account @@ [allowWrites |-> aw, connectionLimit |-> limit])
  /\ NoInstall
  /\ reachable \in BOOLEAN
  /\ db \in [TableNames -> TableKinds]
  /\ InitCalls(1..NumCallers)

Callers == DOMAIN pc

\* calls are interchangeable: they are started in the order of their numbers
MayStart(c) == pc[c] = "idle" /\ (IF c = 1 THEN TRUE ELSE pc[c - 1] # "idle")

Finished(c) == pc[c] \in {"returned", "threw"}

-----------------------------------------------------------------------------
(* executeSql *)

\* the finally block of executeSql: connection?.release() reads the
\* function-scope variable, which the try block never assigns
executeSql_finally(p, c) ==
  IF connection[c] # NoConnection
    THEN [pool |-> release(p, connection[c]), released |-> 1]
    ELSE [pool |-> p, released |-> 0]

\* faulty variant of executeSql's first step: a write statement is rejected
\* when allowWrites is false
executeSql_call_guarded(c, q) ==
  /\ MayStart(c)
  /\ op' = [op EXCEPT ![c] = "executeSql"]
  /\ sqlQuery' = [sqlQuery EXCEPT ![c] = q]
  /\ IF IsWrite(q) /\ ~allowWrites
       THEN /\ error' = [error EXCEPT ![c] = "Writes are not allowed"]
            /\ pc' = [pc EXCEPT ![c] = "threw"]
            /\ UNCHANGED pool
       ELSE /\ pool' = getConnection(pool, c)
            /\ pc' = [pc EXCEPT ![c] = "getConnection"]
            /\ UNCHANGED error
  /\ UNCHANGED nSettled
  /\ UNCHANGED <<fixed, connection, tryConnection,
                 tables, idx, schema, result, sent, nAcquired, nReleased>>

\* executeSql(sqlQuery) up to its first await
executeSql_call(c, q) ==
  /\ MayStart(c)
  /\ op' = [op EXCEPT ![c] = "executeSql"]
  /\ sqlQuery' = [sqlQuery EXCEPT ![c] = q]
  /\ pool' = getConnection(pool, c)
  /\ pc' = [pc EXCEPT ![c] = "getConnection"]
  /\ UNCHANGED nSettled
  /\ UNCHANGED <<fixed, connection, tryConnection, tables,
                 idx, schema, result, error, sent, nAcquired, nReleased>>

\* getConnection resolved: const connection = ...; connection.execute(sqlQuery)
executeSql_connected(c) ==
  /\ pc[c] = "getConnection" /\ op[c] = "executeSql"
  /\ Len(pool.queue) > 0 /\ Head(pool.queue) = c
  /\ CanServe(pool) /\ (Len(pool.free) > 0 \/ reachable)
  /\ tryConnection' = [tryConnection EXCEPT ![c] = Served(pool)]
  /\ nAcquired' = [nAcquired EXCEPT ![c] = @ + 1]
  /\ sent' = [sent EXCEPT ![c] = Append(@, <<Served(pool), <<sqlQuery[c]>>>>)]
  /\ pool' = Serve(pool)
  /\ pc' = [pc EXCEPT ![c] = "execute"]
  /\ UNCHANGED nSettled
  /\ UNCHANGED <<fixed, op, sqlQuery, connection, tables,
                 idx, schema, result, error, nReleased>>

\* getConnection rejected: the error leaves executeSql through finally
executeSql_refused(c) ==
  /\ pc[c] = "getConnection" /\ op[c] = "executeSql"
  /\ Len(pool.queue) > 0 /\ Head(pool.queue) = c
  /\ ConnectFails(pool) \/ Rejects(pool)
  /\ error' = [error EXCEPT ![c] = getConnectionError(pool)]
  /\ pc' = [pc EXCEPT ![c] = "threw"]
  /\ LET f == executeSql_finally([pool EXCEPT !.queue = Tail(@)], c) IN
       /\ pool' = f.pool
       /\ nReleased' = [nReleased EXCEPT ![c] = @ + f.released]
  /\ UNCHANGED nSettled
  /\ UNCHANGED <<fixed, op, sqlQuery, connection,
                 tryConnection, tables, idx, schema, result, sent, nAcquired>>

\* faulty variant of executeSql's last step: a statement that raised is
\* submitted a second time, and the second error is wrapped
executeSql_executed_retry(c) ==
  /\ pc[c] = "execute"
  /\ LET r == Execute(<<sqlQuery[c]>>, db) IN
       IF ~r.ok /\ Len(sent[c]) < 2
         THEN /\ sent' = [sent EXCEPT ![c] =
                     Append(@, <<tryConnection[c], <<sqlQuery[c]>>>>)]
              /\ UNCHANGED <<pc, error, result>>
       ELSE IF ~r.ok
         THEN /\ error' = [error EXCEPT ![c] = "Query failed"]
              /\ pc' = [pc EXCEPT ![c] = "threw"]
              /\ UNCHANGED <<result, sent>>
       ELSE IF "fields" \notin DOMAIN r
         THEN /\ error' = [error EXCEPT ![c] = TypeError]
              /\ pc' = [pc EXCEPT ![c] = "threw"]
              /\ UNCHANGED <<result, sent>>
         ELSE /\ result' = [result EXCEPT ![c] =
                   [rows |-> r.rows,
                    fields |-> [i \in 1..Len(r.fields) |-> r.fields[i].name]]]
              /\ pc' = [pc EXCEPT ![c] = "returned"]
              /\ UNCHANGED <<error, sent>>
  /\ LET f == executeSql_finally(pool, c) IN
       /\ pool' = f.pool
       /\ nReleased' = [nReleased EXCEPT ![c] = @ + f.released]
  /\ nSettled' = [nSettled EXCEPT ![c] = @ + 1]
  /\ UNCHANGED <<fixed, op, sqlQuery, connection,
                 tryConnection, tables, idx, schema, nAcquired>>

\* connection.execute settled: return {rows, fields: fields.map(f => f.name)},
\* or leave with the error; finally runs on either path
executeSql_executed(c) ==
  /\ pc[c] = "execute"
  /\ LET r == Execute(<<sqlQuery[c]>>, db) IN
       IF ~r.ok
         THEN /\ error' = [error EXCEPT ![c] = r.error]
              /\ pc' = [pc EXCEPT ![c] = "threw"]
              /\ UNCHANGED result
       ELSE IF "fields" \notin DOMAIN r
         THEN /\ error' = [error EXCEPT ![c] = TypeError]
              /\ pc' = [pc EXCEPT ![c] = "threw"]
              /\ UNCHANGED result
         ELSE /\ result' = [result EXCEPT ![c] =
                   [rows |-> r.rows,
                    fields |-> [i \in 1..Len(r.fields) |-> r.fields[i].name]]]
              /\ pc' = [pc EXCEPT ![c] = "returned"]
              /\ UNCHANGED error
  /\ LET f == executeSql_finally(pool, c) IN
       /\ pool' = f.pool
       /\ nReleased' = [nReleased EXCEPT ![c] = @ + f.released]
  /\ nSettled' = [nSettled EXCEPT ![c] = @ + 1]
  /\ UNCHANGED <<fixed, op, sqlQuery, connection,
                 tryConnection, tables, idx, schema, sent, nAcquired>>

-----------------------------------------------------------------------------
(* showSchema *)

\* faulty variant of showSchema's finally block: the connection is not released
showSchema_finally_dropped(p, c) == [pool |-> p, released |-> 0]

\* the finally block of showSchema: if (connection) connection.release()
showSchema_finally(p, c) ==
  IF connection[c] # NoConnection
    THEN [pool |-> release(p, connection[c]), released |-> 1]
    ELSE [pool |-> p, released |-> 0]

\* Object.values(tableRow)[0]
tableName(tableRow) == tableRow["Tables_in_db"]

\* faulty variant of the entry of one table: the first column of the row,
\* the table's name, is read instead of the "Create Table" column
schemaEntry_wrongColumn(createTableRows) ==
  IF /\ Len(createTableRows) > 0
     /\ "Create Table" \in DOMAIN createTableRows[1]
     /\ createTableRows[1]["Create Table"] # ""
    THEN createTableRows[1]["Table"]
    ELSE Sentinel

\* faulty variant of the entry of one table: the field is tested for being
\* present, not for being non-empty
schemaEntry_presentOnly(createTableRows) ==
  IF /\ Len(createTableRows) > 0
     /\ "Create Table" \in DOMAIN createTableRows[1]
    THEN createTableRows[1]["Create Table"]
    ELSE Sentinel

\* the entry of one table: the "Create Table" field of the first row, or the
\* sentinel when there is no row or the field is missing or empty
schemaEntry(createTableRows) ==
  IF /\ Len(createTableRows) > 0
     /\ "Create Table" \in DOMAIN createTableRows[1]
     /\ createTableRows[1]["Create Table"] # ""
    THEN createTableRows[1]["Create Table"]
    ELSE Sentinel

\* showSchema() up to its first await
showSchema_call(c) ==
  /\ MayStart(c)
  /\ op' = [op EXCEPT ![c] = "showSchema"]
  /\ pool' = getConnection(pool, c)
  /\ pc' = [pc EXCEPT ![c] = "getConnection"]
  /\ UNCHANGED nSettled
  /\ UNCHANGED <<fixed, sqlQuery, connection, tryConnection,
                 tables, idx, schema, result, error, sent, nAcquired, nReleased>>

\* getConnection resolved: connection = ...; connection.execute('SHOW TABLES;')
showSchema_connected(c) ==
  /\ pc[c] = "getConnection" /\ op[c] = "showSchema"
  /\ Len(pool.queue) > 0 /\ Head(pool.queue) = c
  /\ CanServe(pool) /\ (Len(pool.free) > 0 \/ reachable)
  /\ connection' = [connection EXCEPT ![c] = Served(pool)]
  /\ nAcquired' = [nAcquired EXCEPT ![c] = @ + 1]
  /\ sent' = [sent EXCEPT ![c] = Append(@, <<Served(pool), ShowTables>>)]
  /\ pool' = Serve(pool)
  /\ pc' = [pc EXCEPT ![c] = "showTables"]
  /\ UNCHANGED nSettled
  /\ UNCHANGED <<fixed, op, sqlQuery, tryConnection, tables,
                 idx, schema, result, error, nReleased>>

\* getConnection rejected: the error leaves showSchema through finally
showSchema_refused(c) ==
  /\ pc[c] = "getConnection" /\ op[c] = "showSchema"
  /\ Len(pool.queue) > 0 /\ Head(pool.queue) = c
  /\ ConnectFails(pool) \/ Rejects(pool)
  /\ error' = [error EXCEPT ![c] = getConnectionError(pool)]
  /\ pc' = [pc EXCEPT ![c] = "threw"]
  /\ LET f == showSchema_finally([pool EXCEPT !.queue = Tail(@)], c) IN
       /\ pool' = f.pool
       /\ nReleased' = [nReleased EXCEPT ![c] = @ + f.released]
  /\ UNCHANGED nSettled
  /\ UNCHANGED <<fixed, op, sqlQuery, connection,
                 tryConnection, tables, idx, schema, result, sent, nAcquired>>

\* the loop of showSchema from position i with the schema s built so far:
\* submit the statement of the next table, or return the schema
showSchema_loop(c, rows, i, s) ==
  IF i <= Len(rows)
    THEN /\ sent' = [sent EXCEPT ![c] =
                Append(@, <<connection[c], ShowCreateTable(tableName(rows[i]))>>)]
         /\ pc' = [pc EXCEPT ![c] = "showCreateTable"]
         /\ UNCHANGED <<pool, nReleased, result>>
    ELSE /\ result' = [result EXCEPT ![c] = s]
         /\ pc' = [pc EXCEPT ![c] = "returned"]
         /\ LET f == showSchema_finally(pool, c) IN
              /\ pool' = f.pool
              /\ nReleased' = [nReleased EXCEPT ![c] = @ + f.released]
         /\ UNCHANGED sent

\* the error of a statement leaves showSchema through finally
showSchema_throw(c, e) ==
  /\ error' = [error EXCEPT ![c] = e]
  /\ pc' = [pc EXCEPT ![c] = "threw"]
  /\ LET f == showSchema_finally(pool, c) IN
       /\ pool' = f.pool
       /\ nReleased' = [nReleased EXCEPT ![c] = @ + f.released]

\* faulty variant of the step after 'SHOW TABLES;': the statements of all
\* tables are submitted at once
showSchema_listed_parallel(c) ==
  /\ pc[c] = "showTables"
  /\ LET r == Execute(ShowTables, db) IN
       /\ tables' = [tables EXCEPT ![c] = r.rows]
       /\ idx' = [idx EXCEPT ![c] = 1]
       /\ schema' = [schema EXCEPT ![c] = <<>>]
       /\ IF Len(r.rows) > 0
            THEN /\ sent' = [sent EXCEPT ![c] = @ \o
                      [i \in 1..Len(r.rows) |->
                         <<connection[c], ShowCreateTable(tableName(r.rows[i]))>>]]
                 /\ pc' = [pc EXCEPT ![c] = "showCreateTable"]
                 /\ UNCHANGED <<pool, nReleased, result>>
            ELSE showSchema_loop(c, r.rows, 1, <<>>)
  /\ nSettled' = [nSettled EXCEPT ![c] = @ + 1]
  /\ UNCHANGED <<fixed, op, sqlQuery, connection, tryConnection, error,
                 nAcquired>>

\* 'SHOW TABLES;' settled: const schema = {}; enter the loop
showSchema_listed(c) ==
  /\ pc[c] = "showTables"
  /\ LET r == Execute(ShowTables, db) IN
       /\ tables' = [tables EXCEPT ![c] = r.rows]
       /\ idx' = [idx EXCEPT ![c] = 1]
       /\ schema' = [schema EXCEPT ![c] = <<>>]
       /\ showSchema_loop(c, r.rows, 1, <<>>)
  /\ nSettled' = [nSettled EXCEPT ![c] = @ + 1]
  /\ UNCHANGED <<fixed, op, sqlQuery, connection,
                 tryConnection, error, nAcquired>>

\* 'SHOW TABLES;' raised (the connection was lost)
showSchema_listFailed(c) ==
  /\ pc[c] = "showTables"
  /\ showSchema_throw(c, ConnectionLost)
  /\ nSettled' = [nSettled EXCEPT ![c] = @ + 1]
  /\ UNCHANGED <<fixed, op, sqlQuery, connection,
                 tryConnection, tables, idx, schema, result, sent, nAcquired>>

\* 'SHOW CREATE TABLE' settled for the table at the loop position
showSchema_described(c) ==
  /\ pc[c] = "showCreateTable"
  /\ LET name == tableName(tables[c][idx[c]])
         r == Execute(ShowCreateTable(name), db)
     IN  IF r.ok
           THEN LET s == (name :> schemaEntry(r.rows)) @@ schema[c] IN
                /\ schema' = [schema EXCEPT ![c] = s]
                /\ idx' = [idx EXCEPT ![c] = @ + 1]
                /\ showSchema_loop(c, tables[c], idx[c] + 1, s)
                /\ UNCHANGED error
           ELSE /\ showSchema_throw(c, r.error)
                /\ UNCHANGED <<schema, idx, result, sent>>
  /\ nSettled' = [nSettled EXCEPT ![c] = @ + 1]
  /\ UNCHANGED <<fixed, op, sqlQuery, connection,
                 tryConnection, tables, nAcquired>>

-----------------------------------------------------------------------------
(* The provider under any callers *)

Next ==
  \/ \E c \in Callers, q \in Statements : executeSql_call(c, q)
  \/ \E c \in Callers : executeSql_connected(c)
  \/ \E c \in Callers : executeSql_refused(c)
  \/ \E c \in Callers : executeSql_executed(c)
  \/ \E c \in Callers : showSchema_call(c)
  \/ \E c \in Callers : showSchema_connected(c)
  \/ \E c \in Callers : showSchema_refused(c)
  \/ \E c \in Callers : showSchema_listed(c)
  \/ \E c \in Callers : showSchema_listFailed(c)
  \/ \E c \in Callers : showSchema_described(c)

Spec == Init /\ [][Next]_vars

-----------------------------------------------------------------------------
(* The stress scenario: StressCallers concurrent callers of executeSql and *)
(* showSchema on a provider built with connectionLimit = StressLimit,      *)
(* against a reachable server that answers every statement                 *)

StressInit ==
  /\ Construct(Account @@ [allowWrites |-> FALSE, connectionLimit |-> StressLimit])
  /\ NoInstall
  /\ reachable = TRUE
  /\ db = [t \in TableNames |-> "ddl"]
  /\ InitCalls(1..StressCallers)

StressNext ==
  \/ \E c \in Callers : executeSql_call(c, SelectStatement)
  \/ \E c \in Callers : executeSql_connected(c)
  \/ \E c \in Callers : executeSql_executed(c)
  \/ \E c \in Callers : showSchema_call(c)
  \/ \E c \in Callers : showSchema_connected(c)
  \/ \E c \in Callers : showSchema_listed(c)
  \/ \E c \in Callers : showSchema_described(c)

StressSpec == StressInit /\ [][StressNext]_vars /\ WF_vars(StressNext)

-----------------------------------------------------------------------------
(* The constructors applied to the properties a caller may give *)

Hosts == {"localhost", "db.internal"}
Ports == {3306, 3307}
Users == {"root", "app"}
Passwords == {"password", ""}
DatabaseNames == {"myapp", "other"}
Limits == {1, 10, 25}

\* the properties object: port, connectionLimit and allowWrites are optional
Given(required, hasPort, port, hasLimit, limit, hasAllowWrites, aw) ==
  required
    @@ (IF hasPort THEN [port |-> port] ELSE <<>>)
    @@ (IF hasLimit THEN [connectionLimit |-> limit] ELSE <<>>)
    @@ (IF hasAllowWrites THEN [allowWrites |-> aw] ELSE <<>>)

CtorInit ==
  /\ \E required \in [host : Hosts, user : Users, password : Passwords,
                      databaseName : DatabaseNames],
        hasPort \in BOOLEAN, port \in Ports,
        hasLimit \in BOOLEAN, limit \in Limits,
        hasAllowWrites \in BOOLEAN, aw \in BOOLEAN :
       props = Given(required, hasPort, port, hasLimit, limit, hasAllowWrites, aw)
  /\ built = FALSE
  /\ variant \in BOOLEAN
  /\ pool = Null
  /\ allowWrites \in BOOLEAN
  /\ connDb = <<>>
  /\ NoInstall
  /\ reachable = TRUE
  /\ db = [t \in TableNames |-> "ddl"]
  /\ InitCalls({})

\* new MySQLResource(props) of src/MySQLResource.ts
constructor ==
  /\ ~built /\ ~variant
  /\ built' = TRUE
  /\ allowWrites' = MySQLResource(props).allowWrites
  /\ pool' = MySQLResource(props).pool
  /\ UNCHANGED <<props, reachable, db, installVars, variant, connDb,
                 databaseName, pc, op, sqlQuery, connection, tryConnection,
                 tables, idx, schema, result, error, sent, nAcquired,
                 nReleased, nSettled>>

\* new MySQLResource(props) of the variant: allowWrites is left to the base
\* class, which has no default for it in this repository
Variant_constructor ==
  /\ ~built /\ variant
  /\ built' = TRUE
  /\ allowWrites' \in (IF "allowWrites" \in DOMAIN props
                         THEN {props.allowWrites} ELSE BOOLEAN)
  /\ pool' = VariantMySQLResource(props).pool
  /\ UNCHANGED <<props, reachable, db, installVars, variant, connDb,
                 databaseName, pc, op, sqlQuery, connection, tryConnection,
                 tables, idx, schema, result, error, sent, nAcquired,
                 nReleased, nSettled>>

CtorNext ==
  \/ constructor
  \/ Variant_constructor

CtorSpec == CtorInit /\ [][CtorNext]_vars

-----------------------------------------------------------------------------
(* install: the providers of the configuration are registered in the       *)
(* host's DatabaseService (src/plugin.ts and src/index.ts)                 *)

\* number of lookups by name made in one run
MaxLookups == 2

ProviderNames == {"main", "replica", "warehouse"}
ProviderTypes == {"mysql", "postgres"}

\* the entry of the providers mapping with this name and type
ProviderEntry(name, type) ==
  [type |-> type, host |-> "localhost", user |-> "root",
   password |-> "password", databaseName |-> name]

\* the configurations: without a database block, or with a providers mapping
Configs ==
  {<<>>} \cup
  {[database |-> [providers |-> [n \in S |-> ProviderEntry(n, types[n])]]] :
     S \in SUBSET ProviderNames, types \in [ProviderNames -> ProviderTypes]}

InstallInit ==
  /\ config \in Configs
  /\ installPc = "idle"
  /\ service \in BOOLEAN
  /\ registry = <<>>
  /\ nConstructed = 0
  /\ lookups = {}
  /\ built = FALSE
  /\ variant = FALSE
  /\ props = Account
  /\ allowWrites = FALSE
  /\ pool = Null
  /\ connDb = <<>>
  /\ reachable = TRUE
  /\ db = [t \in TableNames |-> "ddl"]
  /\ InitCalls({})

\* what install and its callback leave alone
notInstall == <<props, allowWrites, pool, reachable, db, pc, op, sqlQuery,
                connection, tryConnection, tables, idx, schema, result, error,
                sent, nAcquired, nReleased, nSettled, built, variant, connDb,
                databaseName>>

\* faulty variant of the loop: the type of the entry is not looked at
registerProviders_anyType(providers) ==
  [name \in DOMAIN providers |-> MySQLResource(providers[name])]

\* the loop of the callback: for (const name in providers) if
\* (provider.type === "mysql") registerDatabase(name, new MySQLProvider(provider))
registerProviders(providers) ==
  [name \in {n \in DOMAIN providers : providers[n].type = "mysql"} |->
     MySQLResource(providers[name])]

\* install(app, config) of src/plugin.ts: if (config.database)
\* app.waitForService(DatabaseService, callback)
plugin_install ==
  /\ installPc = "idle"
  /\ installPc' = IF "database" \in DOMAIN config THEN "waitForService"
                                                   ELSE "installed"
  /\ UNCHANGED <<config, service, registry, nConstructed, lookups, notInstall>>

\* faulty variant of the callback: it runs without the service
plugin_callback_early ==
  /\ installPc = "waitForService"
  /\ registry' = registerProviders(config.database.providers) @@ registry
  /\ nConstructed' = nConstructed
                       + Cardinality(DOMAIN registerProviders(config.database.providers))
  /\ installPc' = "registered"
  /\ UNCHANGED <<config, service, lookups, notInstall>>

\* the callback given to waitForService, called with the service
plugin_callback ==
  /\ installPc = "waitForService"
  /\ service
  /\ registry' = registerProviders(config.database.providers) @@ registry
  /\ nConstructed' = nConstructed
                       + Cardinality(DOMAIN registerProviders(config.database.providers))
  /\ installPc' = "registered"
  /\ UNCHANGED <<config, service, lookups, notInstall>>

\* install(agentTeam) of src/index.ts: if (databaseConfig)
\* agentTeam.services.waitForItemByType(DatabaseService).then(callback)
index_install ==
  /\ installPc = "idle"
  /\ installPc' = IF "database" \in DOMAIN config THEN "waitForItemByType"
                                                   ELSE "installed"
  /\ UNCHANGED <<config, service, registry, nConstructed, lookups, notInstall>>

\* the callback given to then, called with the service
index_callback ==
  /\ installPc = "waitForItemByType"
  /\ service
  /\ registry' = registerProviders(config.database.providers) @@ registry
  /\ nConstructed' = nConstructed
                       + Cardinality(DOMAIN registerProviders(config.database.providers))
  /\ installPc' = "registered"
  /\ UNCHANGED <<config, service, lookups, notInstall>>

\* the host makes its DatabaseService available
serviceAvailable ==
  /\ ~service
  /\ service' = TRUE
  /\ UNCHANGED <<config, installPc, registry, nConstructed, lookups, notInstall>>

\* somebody looks a database up by name
lookup(name) ==
  /\ Cardinality(lookups) < MaxLookups
  /\ lookups' = lookups \cup
       {[name |-> name, found |-> name \in DOMAIN registry,
         service |-> service, installPc |-> installPc]}
  /\ UNCHANGED <<config, installPc, service, registry, nConstructed, notInstall>>

InstallNext ==
  \/ plugin_install
  \/ plugin_callback
  \/ index_install
  \/ index_callback
  \/ serviceAvailable
  \/ \E name \in ProviderNames : lookup(name)

InstallSpec == InstallInit /\ [][InstallNext]_vars

-----------------------------------------------------------------------------
(* Callers queueing for connections: QueueCallers calls on one provider *)

QueueCallers == 3

QueueInit ==
  /\ \E limit \in 1..MaxLimit :
       Construct(Account @@ [allowWrites |-> FALSE, connectionLimit |-> limit])
  /\ NoInstall
  /\ reachable \in BOOLEAN
  /\ db = [t \in TableNames |-> IF t = "A" THEN "ddl" ELSE "denied"]
  /\ InitCalls(1..QueueCallers)

QueueSpec == QueueInit /\ [][Next]_vars

-----------------------------------------------------------------------------
(* The start/stop variant of the provider (class MySQLResource of          *)
(* src/plugin.ts): executeSql, listDatabases, showSchema(databaseName),    *)
(* start, stop and status on a pool that stop ends and sets to null.       *)
(* pool.end() closes the pool: it destroys its connections, and            *)
(* getConnection on a closed pool rejects.  The host stops a provider when *)
(* no call on it holds or waits for a connection.                          *)

\* number of calls made on the variant provider in one run
VariantCallers == 2

\* !x of a string argument that may be missing
Falsy(x) == x \in {"", Undefined}

Ping == <<"ping">>
ShowDatabases == <<"SHOW DATABASES;">>
Use(name) == <<"USE", name>>

SqlQueryRequired == "sqlQuery is required for executeSql."
DatabaseNameRequired == "databaseName is required to show schema."
PoolClosed == "Pool is closed."
PoolNotInitialized == "Connection pool not initialized or closed."
PoolActive == "Connection pool active."
EndFailed == "error closing connection pool"
EmptyQuery == "Query was empty"
NullPoolError == "TypeError: Cannot read properties of null (reading 'getConnection')"

\* the database of the server the provider is configured for, and another one
ConfiguredDatabase == "myapp"
OtherDatabase == "other"
OtherTables == [t \in TableNames |-> IF t = "A" THEN "absent" ELSE "ddl"]
TablesOf(name) == IF name = ConfiguredDatabase THEN db ELSE OtherTables

\* the server's answer to a statement on a connection that has selected the
\* database called name
VariantExecute(stmt, name) ==
  IF stmt = ShowDatabases
    THEN [ok |-> TRUE,
          rows |-> <<[Database |-> ConfiguredDatabase], [Database |-> OtherDatabase]>>,
          fields |-> <<[name |-> "Database"]>>]
  ELSE IF Len(stmt) = 1 /\ Falsy(stmt[1])
    THEN [ok |-> FALSE, error |-> EmptyQuery]
  ELSE Execute(stmt, TablesOf(name))

VariantConstruct(given) ==
  /\ built = TRUE
  /\ variant = TRUE
  /\ props = given
  /\ allowWrites = FALSE
  /\ pool = VariantMySQLResource(given).pool
  /\ connDb = [k \in 1..propsWithDefaults(given).connectionLimit |->
                 given.databaseName]

VariantInit ==
  /\ \E limit \in 1..MaxLimit :
       VariantConstruct(Account @@ [connectionLimit |-> limit])
  /\ NoInstall
  /\ reachable \in BOOLEAN
  /\ db \in {[t \in TableNames |-> IF t = "A" THEN "ddl" ELSE k] :
               k \in {"absent", "denied"}}
  /\ InitCalls(1..VariantCallers)

\* the pool gives the caller at the head of its queue a connection
Variant_granted(c) ==
  /\ pc[c] = "getConnection"
  /\ Len(pool.queue) > 0 /\ Head(pool.queue) = c
  /\ ~pool.closed
  /\ CanServe(pool) /\ (Len(pool.free) > 0 \/ reachable)

\* the pool rejects the caller at the head of its queue
Variant_rejected(c) ==
  /\ pc[c] = "getConnection"
  /\ Len(pool.queue) > 0 /\ Head(pool.queue) = c
  /\ pool.closed \/ ConnectFails(pool) \/ Rejects(pool)

Variant_getConnectionError(p) ==
  IF p.closed THEN PoolClosed ELSE getConnectionError(p)

\* connection = await this.pool.getConnection() resolved
Variant_acquire(c) ==
  /\ connection' = [connection EXCEPT ![c] = Served(pool)]
  /\ nAcquired' = [nAcquired EXCEPT ![c] = @ + 1]
  /\ pool' = Serve(pool)

\* a statement or a ping is submitted on the call's connection
Variant_submit(c, k, stmt) ==
  sent' = [sent EXCEPT ![c] = Append(@, <<k, stmt, connDb[k]>>)]

\* finally { if (connection) connection.release(); } with a connection
Variant_finally(c) ==
  /\ pool' = release(pool, connection[c])
  /\ nReleased' = [nReleased EXCEPT ![c] = @ + 1]

Variant_throw(c, e) ==
  /\ error' = [error EXCEPT ![c] = e]
  /\ pc' = [pc EXCEPT ![c] = "threw"]

Variant_return(c, v) ==
  /\ result' = [result EXCEPT ![c] = v]
  /\ pc' = [pc EXCEPT ![c] = "returned"]

\* no call holds or waits for a connection
Quiescent ==
  \A d \in DOMAIN pc :
    pc[d] \notin {"getConnection", "execute", "use", "showTables",
                  "showCreateTable", "ping"}

(* executeSql(sqlQuery) *)

\* faulty variant of executeSql's first step: sqlQuery is not looked at
Variant_executeSql_call_unchecked(c, q) ==
  /\ MayStart(c)
  /\ op' = [op EXCEPT ![c] = "executeSql"]
  /\ sqlQuery' = [sqlQuery EXCEPT ![c] = q]
  /\ IF IsNull(pool)
       THEN Variant_throw(c, NullPoolError) /\ UNCHANGED pool
       ELSE /\ pool' = getConnection(pool, c)
            /\ pc' = [pc EXCEPT ![c] = "getConnection"]
            /\ UNCHANGED error
  /\ UNCHANGED <<common, tryConnection, connDb, databaseName, connection,
                 tables, idx, schema, result, sent, nAcquired, nReleased,
                 nSettled>>

\* if (!sqlQuery) throw ...; this.pool.getConnection()
Variant_executeSql_call(c, q) ==
  /\ MayStart(c)
  /\ op' = [op EXCEPT ![c] = "executeSql"]
  /\ sqlQuery' = [sqlQuery EXCEPT ![c] = q]
  /\ IF Falsy(q)
       THEN Variant_throw(c, SqlQueryRequired) /\ UNCHANGED pool
     ELSE IF IsNull(pool)
       THEN Variant_throw(c, NullPoolError) /\ UNCHANGED pool
       ELSE /\ pool' = getConnection(pool, c)
            /\ pc' = [pc EXCEPT ![c] = "getConnection"]
            /\ UNCHANGED error
  /\ UNCHANGED <<common, tryConnection, connDb, databaseName, connection,
                 tables, idx, schema, result, sent, nAcquired, nReleased,
                 nSettled>>

\* getConnection resolved: connection.execute(sqlQuery, params.values)
Variant_executeSql_connected(c) ==
  /\ op[c] = "executeSql" /\ Variant_granted(c)
  /\ Variant_acquire(c)
  /\ Variant_submit(c, Served(pool), <<sqlQuery[c]>>)
  /\ pc' = [pc EXCEPT ![c] = "execute"]
  /\ UNCHANGED <<common, tryConnection, connDb, op, sqlQuery, databaseName,
                 tables, idx, schema, result, error, nReleased, nSettled>>

\* getConnection rejected: finally finds no connection
Variant_executeSql_refused(c) ==
  /\ op[c] = "executeSql" /\ Variant_rejected(c)
  /\ Variant_throw(c, Variant_getConnectionError(pool))
  /\ pool' = [pool EXCEPT !.queue = Tail(@)]
  /\ UNCHANGED <<common, tryConnection, connDb, op, sqlQuery, databaseName,
                 connection, tables, idx, schema, result, sent, nAcquired,
                 nReleased, nSettled>>

\* execute settled: return { rows, fields: fields.map(f => f.name) }, or
\* leave with the error; finally releases
Variant_executeSql_executed(c) ==
  /\ op[c] = "executeSql" /\ pc[c] = "execute"
  /\ LET r == VariantExecute(<<sqlQuery[c]>>, connDb[connection[c]]) IN
       IF ~r.ok
         THEN Variant_throw(c, r.error) /\ UNCHANGED result
       ELSE IF "fields" \notin DOMAIN r
         THEN Variant_throw(c, TypeError) /\ UNCHANGED result
         ELSE /\ Variant_return(c, [rows |-> r.rows,
                   fields |-> [i \in 1..Len(r.fields) |-> r.fields[i].name]])
              /\ UNCHANGED error
  /\ Variant_finally(c)
  /\ nSettled' = [nSettled EXCEPT ![c] = @ + 1]
  /\ UNCHANGED <<common, tryConnection, connDb, op, sqlQuery, databaseName,
                 connection, tables, idx, schema, sent, nAcquired>>

(* listDatabases() *)

\* faulty variant of listDatabases' first step: a pool that is null is
\* created again
Variant_listDatabases_call_reopens(c) ==
  /\ MayStart(c)
  /\ op' = [op EXCEPT ![c] = "listDatabases"]
  /\ pool' = getConnection(IF IsNull(pool)
                             THEN createPool(VariantPoolOptions(props))
                             ELSE pool, c)
  /\ pc' = [pc EXCEPT ![c] = "getConnection"]
  /\ UNCHANGED <<common, tryConnection, connDb, sqlQuery, databaseName,
                 connection, tables, idx, schema, result, error, sent,
                 nAcquired, nReleased, nSettled>>

Variant_listDatabases_call(c) ==
  /\ MayStart(c)
  /\ op' = [op EXCEPT ![c] = "listDatabases"]
  /\ IF IsNull(pool)
       THEN Variant_throw(c, NullPoolError) /\ UNCHANGED pool
       ELSE /\ pool' = getConnection(pool, c)
            /\ pc' = [pc EXCEPT ![c] = "getConnection"]
            /\ UNCHANGED error
  /\ UNCHANGED <<common, tryConnection, connDb, sqlQuery, databaseName,
                 connection, tables, idx, schema, result, sent, nAcquired,
                 nReleased, nSettled>>

\* getConnection resolved: connection.execute('SHOW DATABASES;')
Variant_listDatabases_connected(c) ==
  /\ op[c] = "listDatabases" /\ Variant_granted(c)
  /\ Variant_acquire(c)
  /\ Variant_submit(c, Served(pool), ShowDatabases)
  /\ pc' = [pc EXCEPT ![c] = "execute"]
  /\ UNCHANGED <<common, tryConnection, connDb, op, sqlQuery, databaseName,
                 tables, idx, schema, result, error, nReleased, nSettled>>

Variant_listDatabases_refused(c) ==
  /\ op[c] = "listDatabases" /\ Variant_rejected(c)
  /\ Variant_throw(c, Variant_getConnectionError(pool))
  /\ pool' = [pool EXCEPT !.queue = Tail(@)]
  /\ UNCHANGED <<common, tryConnection, connDb, op, sqlQuery, databaseName,
                 connection, tables, idx, schema, result, sent, nAcquired,
                 nReleased, nSettled>>

\* execute settled: return rows.map(row => row.Database); finally releases
Variant_listDatabases_executed(c) ==
  /\ op[c] = "listDatabases" /\ pc[c] = "execute"
  /\ LET r == VariantExecute(ShowDatabases, connDb[connection[c]]) IN
       Variant_return(c, [i \in 1..Len(r.rows) |-> r.rows[i].Database])
  /\ Variant_finally(c)
  /\ nSettled' = [nSettled EXCEPT ![c] = @ + 1]
  /\ UNCHANGED <<common, tryConnection, connDb, op, sqlQuery, databaseName,
                 connection, tables, idx, schema, error, sent, nAcquired>>

(* showSchema(databaseName) *)

\* if (!databaseName) throw ...; this.pool.getConnection()
Variant_showSchema_call(c, name) ==
  /\ MayStart(c)
  /\ op' = [op EXCEPT ![c] = "showSchema"]
  /\ databaseName' = [databaseName EXCEPT ![c] = name]
  /\ IF Falsy(name)
       THEN Variant_throw(c, DatabaseNameRequired) /\ UNCHANGED pool
     ELSE IF IsNull(pool)
       THEN Variant_throw(c, NullPoolError) /\ UNCHANGED pool
       ELSE /\ pool' = getConnection(pool, c)
            /\ pc' = [pc EXCEPT ![c] = "getConnection"]
            /\ UNCHANGED error
  /\ UNCHANGED <<common, tryConnection, connDb, sqlQuery, connection, tables,
                 idx, schema, result, sent, nAcquired, nReleased, nSettled>>

\* getConnection resolved: USE when the database is not the configured one,
\* 'SHOW TABLES;' otherwise
Variant_showSchema_connected(c) ==
  /\ op[c] = "showSchema" /\ Variant_granted(c)
  /\ Variant_acquire(c)
  /\ IF props.databaseName # databaseName[c]
       THEN /\ Variant_submit(c, Served(pool), Use(databaseName[c]))
            /\ pc' = [pc EXCEPT ![c] = "use"]
       ELSE /\ Variant_submit(c, Served(pool), ShowTables)
            /\ pc' = [pc EXCEPT ![c] = "showTables"]
  /\ UNCHANGED <<common, tryConnection, connDb, op, sqlQuery, databaseName,
                 tables, idx, schema, result, error, nReleased, nSettled>>

Variant_showSchema_refused(c) ==
  /\ op[c] = "showSchema" /\ Variant_rejected(c)
  /\ Variant_throw(c, Variant_getConnectionError(pool))
  /\ pool' = [pool EXCEPT !.queue = Tail(@)]
  /\ UNCHANGED <<common, tryConnection, connDb, op, sqlQuery, databaseName,
                 connection, tables, idx, schema, result, sent, nAcquired,
                 nReleased, nSettled>>

\* USE settled: the connection has selected databaseName; 'SHOW TABLES;'
Variant_showSchema_used(c) ==
  /\ op[c] = "showSchema" /\ pc[c] = "use"
  /\ connDb' = [connDb EXCEPT ![connection[c]] = databaseName[c]]
  /\ sent' = [sent EXCEPT ![c] =
                Append(@, <<connection[c], ShowTables, databaseName[c]>>)]
  /\ nSettled' = [nSettled EXCEPT ![c] = @ + 1]
  /\ pc' = [pc EXCEPT ![c] = "showTables"]
  /\ UNCHANGED <<common, tryConnection, pool, op, sqlQuery, databaseName,
                 connection, tables, idx, schema, result, error, nAcquired,
                 nReleased>>

\* the for-of loop at position i with the schema s built so far
Variant_showSchema_loop(c, rows, i, s) ==
  IF i <= Len(rows)
    THEN /\ Variant_submit(c, connection[c], ShowCreateTable(tableName(rows[i])))
         /\ pc' = [pc EXCEPT ![c] = "showCreateTable"]
         /\ UNCHANGED <<pool, nReleased, result>>
    ELSE /\ Variant_return(c, s)
         /\ Variant_finally(c)
         /\ UNCHANGED sent

\* 'SHOW TABLES;' settled: const schema = {}; enter the loop
Variant_showSchema_listed(c) ==
  /\ op[c] = "showSchema" /\ pc[c] = "showTables"
  /\ LET r == VariantExecute(ShowTables, connDb[connection[c]]) IN
       /\ tables' = [tables EXCEPT ![c] = r.rows]
       /\ idx' = [idx EXCEPT ![c] = 1]
       /\ schema' = [schema EXCEPT ![c] = <<>>]
       /\ Variant_showSchema_loop(c, r.rows, 1, <<>>)
  /\ nSettled' = [nSettled EXCEPT ![c] = @ + 1]
  /\ UNCHANGED <<common, tryConnection, connDb, op, sqlQuery, databaseName,
                 connection, error, nAcquired>>

\* 'SHOW CREATE TABLE' settled for the table at the loop position
Variant_showSchema_described(c) ==
  /\ op[c] = "showSchema" /\ pc[c] = "showCreateTable"
  /\ LET name == tableName(tables[c][idx[c]])
         r == VariantExecute(ShowCreateTable(name), connDb[connection[c]])
     IN  IF r.ok
           THEN LET s == (name :> schemaEntry(r.rows)) @@ schema[c] IN
                /\ schema' = [schema EXCEPT ![c] = s]
                /\ idx' = [idx EXCEPT ![c] = @ + 1]
                /\ Variant_showSchema_loop(c, tables[c], idx[c] + 1, s)
                /\ UNCHANGED error
           ELSE /\ Variant_throw(c, r.error)
                /\ Variant_finally(c)
                /\ UNCHANGED <<schema, idx, result, sent>>
  /\ nSettled' = [nSettled EXCEPT ![c] = @ + 1]
  /\ UNCHANGED <<common, tryConnection, connDb, op, sqlQuery, databaseName,
                 connection, tables, nAcquired>>

(* start(registry) *)

\* await super.start(registry)
Variant_start_call(c) ==
  /\ MayStart(c)
  /\ op' = [op EXCEPT ![c] = "start"]
  /\ pc' = [pc EXCEPT ![c] = "super"]
  /\ UNCHANGED <<common, tryConnection, pool, connDb, sqlQuery, databaseName,
                 connection, tables, idx, schema, result, error, sent,
                 nAcquired, nReleased, nSettled>>

\* super.start settled: try { this.pool.getConnection() }; the catch logs
\* the error of a null pool
Variant_start_begin(c) ==
  /\ op[c] = "start" /\ pc[c] = "super"
  /\ IF IsNull(pool)
       THEN /\ error' = [error EXCEPT ![c] = NullPoolError]
            /\ pc' = [pc EXCEPT ![c] = "returned"]
            /\ UNCHANGED pool
       ELSE /\ pool' = getConnection(pool, c)
            /\ pc' = [pc EXCEPT ![c] = "getConnection"]
            /\ UNCHANGED error
  /\ UNCHANGED <<common, tryConnection, connDb, op, sqlQuery, databaseName,
                 connection, tables, idx, schema, result, sent, nAcquired,
                 nReleased, nSettled>>

\* getConnection resolved: connection.ping()
Variant_start_connected(c) ==
  /\ op[c] = "start" /\ Variant_granted(c)
  /\ Variant_acquire(c)
  /\ Variant_submit(c, Served(pool), Ping)
  /\ pc' = [pc EXCEPT ![c] = "ping"]
  /\ UNCHANGED <<common, tryConnection, connDb, op, sqlQuery, databaseName,
                 tables, idx, schema, result, error, nReleased, nSettled>>

\* getConnection rejected: the catch logs the error
Variant_start_refused(c) ==
  /\ op[c] = "start" /\ Variant_rejected(c)
  /\ error' = [error EXCEPT ![c] = Variant_getConnectionError(pool)]
  /\ pc' = [pc EXCEPT ![c] = "returned"]
  /\ pool' = [pool EXCEPT !.queue = Tail(@)]
  /\ UNCHANGED <<common, tryConnection, connDb, op, sqlQuery, databaseName,
                 connection, tables, idx, schema, result, sent, nAcquired,
                 nReleased, nSettled>>

\* ping settled: connection.release()
Variant_start_pinged(c) ==
  /\ op[c] = "start" /\ pc[c] = "ping"
  /\ Variant_finally(c)
  /\ nSettled' = [nSettled EXCEPT ![c] = @ + 1]
  /\ pc' = [pc EXCEPT ![c] = "returned"]
  /\ UNCHANGED <<common, tryConnection, connDb, op, sqlQuery, databaseName,
                 connection, tables, idx, schema, result, error, sent,
                 nAcquired>>

\* ping raised: the catch logs the error; release is not reached
Variant_start_pingFailed(c) ==
  /\ op[c] = "start" /\ pc[c] = "ping"
  /\ error' = [error EXCEPT ![c] = ConnectionLost]
  /\ nSettled' = [nSettled EXCEPT ![c] = @ + 1]
  /\ pc' = [pc EXCEPT ![c] = "returned"]
  /\ UNCHANGED <<common, tryConnection, pool, connDb, op, sqlQuery,
                 databaseName, connection, tables, idx, schema, result, sent,
                 nAcquired, nReleased>>

(* stop(registry) *)

\* await super.stop(registry)
Variant_stop_call(c) ==
  /\ MayStart(c)
  /\ op' = [op EXCEPT ![c] = "stop"]
  /\ pc' = [pc EXCEPT ![c] = "super"]
  /\ UNCHANGED <<common, tryConnection, pool, connDb, sqlQuery, databaseName,
                 connection, tables, idx, schema, result, error, sent,
                 nAcquired, nReleased, nSettled>>

\* super.stop settled: if (this.pool) await this.pool.end()
Variant_stop_begin(c) ==
  /\ op[c] = "stop" /\ pc[c] = "super"
  /\ Quiescent
  /\ IF IsNull(pool)
       THEN /\ pc' = [pc EXCEPT ![c] = "returned"]
            /\ UNCHANGED pool
       ELSE /\ pool' = [pool EXCEPT !.closed = TRUE]
            /\ pc' = [pc EXCEPT ![c] = "end"]
  /\ UNCHANGED <<common, tryConnection, connDb, op, sqlQuery, databaseName,
                 connection, tables, idx, schema, result, error, sent,
                 nAcquired, nReleased, nSettled>>

\* faulty variant of the step after pool.end(): this.pool is kept
Variant_stop_ended_keepsPool(c) ==
  /\ op[c] = "stop" /\ pc[c] = "end"
  /\ IF IsNull(pool) THEN TRUE ELSE pool.queue = <<>>
  /\ pool' = IF IsNull(pool) THEN pool
             ELSE [pool EXCEPT !.all = 0, !.free = <<>>]
  /\ pc' = [pc EXCEPT ![c] = "returned"]
  /\ UNCHANGED <<common, tryConnection, connDb, op, sqlQuery, databaseName,
                 connection, tables, idx, schema, result, error, sent,
                 nAcquired, nReleased, nSettled>>

\* pool.end() resolved: this.pool = null
Variant_stop_ended(c) ==
  /\ op[c] = "stop" /\ pc[c] = "end"
  /\ IF IsNull(pool) THEN TRUE ELSE pool.queue = <<>>
  /\ pool' = Null
  /\ pc' = [pc EXCEPT ![c] = "returned"]
  /\ UNCHANGED <<common, tryConnection, connDb, op, sqlQuery, databaseName,
                 connection, tables, idx, schema, result, error, sent,
                 nAcquired, nReleased, nSettled>>

\* pool.end() rejected (a connection could not be closed): the catch logs
\* the error and this.pool stays
Variant_stop_endFailed(c) ==
  /\ op[c] = "stop" /\ pc[c] = "end"
  /\ ~IsNull(pool) /\ pool.all > 0
  /\ error' = [error EXCEPT ![c] = EndFailed]
  /\ pc' = [pc EXCEPT ![c] = "returned"]
  /\ UNCHANGED <<common, tryConnection, pool, connDb, op, sqlQuery,
                 databaseName, connection, tables, idx, schema, result, sent,
                 nAcquired, nReleased, nSettled>>

(* status(registry) *)

\* await super.status(registry)
Variant_status_call(c) ==
  /\ MayStart(c)
  /\ op' = [op EXCEPT ![c] = "status"]
  /\ pc' = [pc EXCEPT ![c] = "super"]
  /\ UNCHANGED <<common, tryConnection, pool, connDb, sqlQuery, databaseName,
                 connection, tables, idx, schema, result, error, sent,
                 nAcquired, nReleased, nSettled>>

\* super.status settled: if (!this.pool) return {active: false, ...};
\* this.pool.getConnection()
Variant_status_begin(c) ==
  /\ op[c] = "status" /\ pc[c] = "super"
  /\ IF IsNull(pool)
       THEN /\ Variant_return(c, [active |-> FALSE, message |-> PoolNotInitialized])
            /\ UNCHANGED pool
       ELSE /\ pool' = getConnection(pool, c)
            /\ pc' = [pc EXCEPT ![c] = "getConnection"]
            /\ UNCHANGED result
  /\ UNCHANGED <<common, tryConnection, connDb, op, sqlQuery, databaseName,
                 connection, tables, idx, schema, error, sent, nAcquired,
                 nReleased, nSettled>>

\* getConnection resolved: connection.ping()
Variant_status_connected(c) ==
  /\ op[c] = "status" /\ Variant_granted(c)
  /\ Variant_acquire(c)
  /\ Variant_submit(c, Served(pool), Ping)
  /\ pc' = [pc EXCEPT ![c] = "ping"]
  /\ UNCHANGED <<common, tryConnection, connDb, op, sqlQuery, databaseName,
                 tables, idx, schema, result, error, nReleased, nSettled>>

\* getConnection rejected: return {active: false, message: error.message}
Variant_status_refused(c) ==
  /\ op[c] = "status" /\ Variant_rejected(c)
  /\ Variant_return(c, [active |-> FALSE,
                        message |-> Variant_getConnectionError(pool)])
  /\ pool' = [pool EXCEPT !.queue = Tail(@)]
  /\ UNCHANGED <<common, tryConnection, connDb, op, sqlQuery, databaseName,
                 connection, tables, idx, schema, error, sent, nAcquired,
                 nReleased, nSettled>>

\* ping settled: connection.release(); return {active: true, ...}
Variant_status_pinged(c) ==
  /\ op[c] = "status" /\ pc[c] = "ping"
  /\ Variant_finally(c)
  /\ nSettled' = [nSettled EXCEPT ![c] = @ + 1]
  /\ Variant_return(c, [active |-> TRUE, message |-> PoolActive])
  /\ UNCHANGED <<common, tryConnection, connDb, op, sqlQuery, databaseName,
                 connection, tables, idx, schema, error, sent, nAcquired>>

\* ping raised: return {active: false, ...}; release is not reached
Variant_status_pingFailed(c) ==
  /\ op[c] = "status" /\ pc[c] = "ping"
  /\ nSettled' = [nSettled EXCEPT ![c] = @ + 1]
  /\ Variant_return(c, [active |-> FALSE, message |-> ConnectionLost])
  /\ UNCHANGED <<common, tryConnection, pool, connDb, op, sqlQuery,
                 databaseName, connection, tables, idx, schema, error, sent,
                 nAcquired, nReleased>>

\* the arguments executeSql and showSchema are called with
SqlQueries == {SelectStatement, BadStatement, "", Undefined}
SchemaArguments == {ConfiguredDatabase, OtherDatabase, "", Undefined}

VariantNext ==
  \/ \E c \in Callers, q \in SqlQueries : Variant_executeSql_call(c, q)
  \/ \E c \in Callers : Variant_executeSql_connected(c)
  \/ \E c \in Callers : Variant_executeSql_refused(c)
  \/ \E c \in Callers : Variant_executeSql_executed(c)
  \/ \E c \in Callers : Variant_listDatabases_call(c)
  \/ \E c \in Callers : Variant_listDatabases_connected(c)
  \/ \E c \in Callers : Variant_listDatabases_refused(c)
  \/ \E c \in Callers : Variant_listDatabases_executed(c)
  \/ \E c \in Callers, name \in SchemaArguments : Variant_showSchema_call(c, name)
  \/ \E c \in Callers : Variant_showSchema_connected(c)
  \/ \E c \in Callers : Variant_showSchema_refused(c)
  \/ \E c \in Callers : Variant_showSchema_used(c)
  \/ \E c \in Callers : Variant_showSchema_listed(c)
  \/ \E c \in Callers : Variant_showSchema_described(c)
  \/ \E c \in Callers : Variant_start_call(c)
  \/ \E c \in Callers : Variant_start_begin(c)
  \/ \E c \in Callers : Variant_start_connected(c)
  \/ \E c \in Callers : Variant_start_refused(c)
  \/ \E c \in Callers : Variant_start_pinged(c)
  \/ \E c \in Callers : Variant_start_pingFailed(c)
  \/ \E c \in Callers : Variant_stop_call(c)
  \/ \E c \in Callers : Variant_stop_begin(c)
  \/ \E c \in Callers : Variant_stop_ended(c)
  \/ \E c \in Callers : Variant_stop_endFailed(c)
  \/ \E c \in Callers : Variant_status_call(c)
  \/ \E c \in Callers : Variant_status_begin(c)
  \/ \E c \in Callers : Variant_status_connected(c)
  \/ \E c \in Callers : Variant_status_refused(c)
  \/ \E c \in Callers : Variant_status_pinged(c)
  \/ \E c \in Callers : Variant_status_pingFailed(c)

VariantSpec == VariantInit /\ [][VariantNext]_vars

-----------------------------------------------------------------------------
(* Properties *)

ExecuteSqlCalls == {c \in Callers : op[c] = "executeSql"}
ShowSchemaCalls == {c \in Callers : op[c] = "showSchema"}

\* calls suspended at a statement, each holding the connection it acquired
InFlight == {c \in Callers : pc[c] \in {"execute", "showTables", "showCreateTable"}}

Range(q) == {q[i] : i \in 1..Len(q)}

\* the statements a call submitted
Submitted(c) == {sent[c][i][2] : i \in 1..Len(sent[c])}

\* C1: every executeSql call that acquired a connection has released it by
\* the time it completes, with a result or with an error; once every
\* executeSql call made has completed and no other call is under way, no
\* connection is checked out.
C1_ExecuteSqlReleases ==
  /\ \A c \in ExecuteSqlCalls :
       Finished(c) => nReleased[c] = nAcquired[c]
  /\ (\A c \in Callers : pc[c] = "idle" \/ (Finished(c) /\ op[c] = "executeSql"))
       => CheckedOut(pool) = 0

\* C2: once an executeSql call has failed with a server-side error and no
\* call is under way, the pool can serve a connection to the next query made
\* on the provider, for every connectionLimit >= 1.
C2_ValidQueryAfterFailure ==
  ( /\ \E d \in ExecuteSqlCalls : pc[d] = "threw" /\ error[d] = NoSuchTable
    /\ \A e \in Callers : pc[e] = "idle" \/ Finished(e) )
  => CanServe(pool)

\* C3: with connectionLimit = StressLimit and StressCallers concurrent callers
\* of executeSql and showSchema against a responsive server, no interleaving
\* reaches a state from which no step is possible before every call completed.
C3_StressCompletes ==
  (\A c \in Callers : Finished(c)) \/ ENABLED StressNext

\* C4: with a provider built with connectionLimit = N, the connections
\* checked out of the pool, and the calls in flight that hold one, never
\* number more than N.
C4_AtMostLimit ==
  /\ CheckedOut(pool) <= props.connectionLimit
  /\ Cardinality(InFlight) <= props.connectionLimit

\* a state of C4: N connections are checked out by N calls in flight while
\* another caller waits
C4_Witness ==
  /\ CheckedOut(pool) = props.connectionLimit
  /\ Cardinality(InFlight) = props.connectionLimit
  /\ Len(pool.queue) > 0

\* C5: when the DDL statement of one listed table raises while the other
\* listed tables yield their DDL, a showSchema call that got its connection
\* and its table listing returns an entry for every listed table: the
\* sentinel for the failing table, the DDL for the others.
C5_TableFailureYieldsSentinel ==
  \A c \in ShowSchemaCalls :
    ( /\ Cardinality({t \in TableNames : db[t] = "denied"}) = 1
      /\ \A t \in TableNames : db[t] \in {"denied", "ddl"}
      /\ Finished(c) /\ error[c] \notin {ConnectError, ConnectionLost} )
    => /\ pc[c] = "returned"
       /\ DOMAIN result[c] = ListedTables(db)
       /\ \A t \in ListedTables(db) :
            result[c][t] = IF db[t] = "denied" THEN Sentinel ELSE DDL(t)

\* C6: a showSchema call acquires at most one connection, submits every
\* statement on that connection, holds it unreleased while a statement is
\* outstanding, and has released it exactly once when it completes, with a
\* schema or with an error.
C6_OneConnectionReleasedOnce ==
  \A c \in ShowSchemaCalls :
    /\ nAcquired[c] <= 1
    /\ \A i \in 1..Len(sent[c]) : sent[c][i][1] = connection[c]
    /\ c \in InFlight =>
         /\ nAcquired[c] = 1 /\ nReleased[c] = 0
         /\ \A i \in 1..Len(pool.free) : pool.free[i] # connection[c]
    /\ Finished(c) => nReleased[c] = nAcquired[c]

\* a state of C6: a showSchema call ended with the error of its second
\* per-table statement and has released the one connection it acquired
C6_Witness ==
  \E c \in ShowSchemaCalls :
    /\ pc[c] = "threw" /\ error[c] = AccessDenied
    /\ Len(sent[c]) = 3
    /\ nAcquired[c] = 1 /\ nReleased[c] = 1

\* C7: the schema a showSchema call returns has exactly the listed tables as
\* its keys, and the entry of a table whose DDL retrieval succeeded is the
\* creation statement the server reported for it.
C7_SchemaKeysAreListedTables ==
  \A c \in ShowSchemaCalls :
    pc[c] = "returned" =>
      /\ DOMAIN result[c] = ListedTables(db)
      /\ \A t \in ListedTables(db) : db[t] = "ddl" => result[c][t] = DDL(t)

\* a state of C7: showSchema returned on a database that lists both tables
C7_Witness ==
  \E c \in ShowSchemaCalls :
    /\ pc[c] = "returned"
    /\ ListedTables(db) = TableNames
    /\ \A t \in TableNames : db[t] = "ddl"

C9_WritesPrevented ==
  ~allowWrites =>
    \A c \in ExecuteSqlCalls : <<WriteStatement>> \notin Submitted(c)

\* C10: an executeSql call acquires at most once and submits its statement
\* at most once; when acquisition raises, or the statement raises, the call
\* ends with that very error and with no result.
C10_ErrorsPropagateNoRetry ==
  \A c \in ExecuteSqlCalls :
    /\ nAcquired[c] <= 1
    /\ Len(sent[c]) <= 1
    /\ (Finished(c) /\ nAcquired[c] = 0) =>
         pc[c] = "threw" /\ error[c] = ConnectError /\ DOMAIN result[c] = {}
    /\ (Finished(c) /\ Len(sent[c]) = 1 /\ ~Execute(sent[c][1][2], db).ok) =>
         /\ pc[c] = "threw"
         /\ error[c] = Execute(sent[c][1][2], db).error
         /\ DOMAIN result[c] = {}

\* a state of C10: an executeSql call ended with the server's error for the
\* one statement it submitted
C10_Witness ==
  \E c \in ExecuteSqlCalls :
    /\ pc[c] = "threw" /\ error[c] = NoSuchTable
    /\ Len(sent[c]) = 1 /\ sqlQuery[c] = BadStatement

\* C11: the constructor opens no connection and submits nothing: while no
\* call has been made the pool has no connection, idle or in use, and nobody
\* waits; with an unreachable server the failure shows as the connect error
\* that every call made on the provider ends with, the first one included.
C11_ConstructionContactsNothing ==
  /\ built
  /\ (\A c \in Callers : pc[c] = "idle") =>
       /\ pool.all = 0 /\ pool.free = <<>> /\ pool.queue = <<>>
       /\ \A c \in Callers : sent[c] = <<>>
  /\ ~reachable =>
       /\ pool.all = 0
       /\ \A c \in Callers : Finished(c) =>
            pc[c] = "threw" /\ error[c] = ConnectError /\ sent[c] = <<>>

\* a state of C11: the first call on a provider whose server is unreachable
\* has ended with the connect error
C11_Witness ==
  /\ ~reachable
  /\ pc[1] = "threw" /\ error[1] = ConnectError
  /\ pool.all = 0

\* C15: a call waiting for a connection while the pool can serve none is
\* still waiting after any step, in the queue and with no error, however
\* many calls wait.
C15_WaitersStaySuspended ==
  [][\A c \in Callers :
       (pc[c] = "getConnection" /\ ~CanServe(pool)) =>
         /\ pc'[c] = "getConnection"
         /\ error'[c] = Undefined
         /\ c \in Range(pool'.queue)]_vars

\* a state of C15: two calls wait while every connection is checked out
C15_Witness ==
  /\ ~CanServe(pool)
  /\ CheckedOut(pool) = props.connectionLimit
  /\ Len(pool.queue) >= 2
  /\ \A c \in Range(pool.queue) : pc[c] = "getConnection" /\ error[c] = Undefined

\* C16: an executeSql call whose statement the server executed successfully
\* returns the rows produced and the names of the columns the server
\* reported, also when the driver reports no fields for the statement.
C16_SuccessReturnsRowsAndFields ==
  \A c \in ExecuteSqlCalls :
    (Finished(c) /\ Len(sent[c]) = 1 /\ Execute(sent[c][1][2], db).ok) =>
      /\ pc[c] = "returned"
      /\ result[c].rows = Execute(sent[c][1][2], db).rows

\* C17: in showSchema the entry of a table is the sentinel when its DDL
\* result set is empty or its first row has no or an empty "Create Table"
\* field, and the field of the first row otherwise; neither case raises: a
\* showSchema call ends with an error only for a connection failure or a
\* DDL statement that raised.
C17_SentinelOrCreateTableField ==
  \A c \in ShowSchemaCalls :
    /\ \A t \in DOMAIN schema[c] :
         /\ db[t] \in {"empty", "nofield", "blank"} => schema[c][t] = Sentinel
         /\ db[t] = "ddl" => schema[c][t] = DDL(t)
    /\ pc[c] = "returned" => result[c] = schema[c]
    /\ pc[c] = "threw" =>
         \/ error[c] \in {ConnectError, ConnectionLost}
         \/ /\ error[c] = AccessDenied
            /\ idx[c] \in 1..Len(tables[c])
            /\ db[tableName(tables[c][idx[c]])] = "denied"

\* a state of C17: showSchema returned the sentinel for a table whose field
\* is empty and for a table without rows or without the field
C17_Witness ==
  \E c \in ShowSchemaCalls :
    /\ pc[c] = "returned"
    /\ \E t \in DOMAIN result[c], u \in DOMAIN result[c] :
         /\ db[t] = "blank" /\ result[c][t] = Sentinel
         /\ db[u] \in {"empty", "nofield"} /\ result[c][u] = Sentinel

\* C18: a showSchema call has at most one statement outstanding: the first
\* statement is the table listing, the statement of the i-th table is
\* submitted only when the listing and the statements of the tables before
\* it have settled, and the connection is released only when every statement
\* submitted has settled.
C18_StatementsOneAfterAnother ==
  \A c \in ShowSchemaCalls :
    /\ Len(sent[c]) - nSettled[c] \in {0, 1}
    /\ Len(sent[c]) >= 1 => sent[c][1][2] = ShowTables
    /\ \A i \in 2..Len(sent[c]) :
         /\ nSettled[c] >= i - 1
         /\ sent[c][i][2] = ShowCreateTable(tableName(tables[c][i - 1]))
    /\ nReleased[c] >= 1 => nSettled[c] = Len(sent[c])

\* a state of C18: showSchema returned after the listing and two per-table
\* statements, all settled, and released its connection
C18_Witness ==
  \E c \in ShowSchemaCalls :
    /\ pc[c] = "returned"
    /\ Len(sent[c]) = 3 /\ nSettled[c] = 3 /\ nReleased[c] = 1

MySQLEntries ==
  IF "database" \in DOMAIN config
    THEN {n \in DOMAIN config.database.providers :
            config.database.providers[n].type = "mysql"}
    ELSE {}

\* C12: once the callback of install has run, the database service holds
\* under the name of every entry of type "mysql" a provider constructed from
\* that entry, it holds nothing under any other name, and as many providers
\* were constructed as there are such entries.
C12_OneProviderPerMySQLEntry ==
  installPc = "registered" =>
    /\ DOMAIN registry = MySQLEntries
    /\ nConstructed = Cardinality(MySQLEntries)
    /\ \A n \in DOMAIN registry :
         /\ registry[n].pool.config.database =
              config.database.providers[n].databaseName
         /\ registry[n].pool.config.host = config.database.providers[n].host
         /\ registry[n].pool.all = 0

\* a state of C12: two entries of type "mysql" and one of another type gave
\* two registrations
C12_Witness ==
  /\ installPc = "registered"
  /\ DOMAIN config.database.providers = ProviderNames
  /\ Cardinality(MySQLEntries) = 2
  /\ Cardinality(DOMAIN registry) = 2
  /\ nConstructed = 2

\* C13: nothing is constructed or registered while the database service is
\* not available or the callback has not run, a lookup made then finds
\* nothing, a configuration without a database block makes install neither
\* wait nor register, and once registered the registrations and the number
\* of providers constructed do not change any more.
C13_RegisteredOnceAfterService ==
  /\ [](/\ (~service \/ installPc # "registered") =>
             registry = <<>> /\ nConstructed = 0
        /\ \A l \in lookups :
             (~l.service \/ l.installPc # "registered") => ~l.found
        /\ "database" \notin DOMAIN config =>
             /\ installPc \in {"idle", "installed"}
             /\ registry = <<>> /\ nConstructed = 0)
  /\ [][installPc = "registered" =>
          /\ installPc' = "registered"
          /\ registry' = registry
          /\ nConstructed' = nConstructed]_vars

\* a state of C13: a name looked up before the service was available was
\* not found, and is registered now
C13_Witness ==
  /\ installPc = "registered"
  /\ \E l \in lookups :
       ~l.service /\ ~l.found /\ l.name \in DOMAIN registry

\* the variant's start, stop and status calls
StartCalls == {c \in Callers : op[c] = "start"}
StopCalls == {c \in Callers : op[c] = "stop"}
StatusCalls == {c \in Callers : op[c] = "status"}

\* C14: in the variant, start acquires nothing before the base start has
\* settled and, unless an error was caught, has acquired one connection,
\* pinged it and released it when it returns; when stop has returned without
\* an error caught the provider holds no pool; and the step of status that
\* finds no pool returns active = false with nothing acquired and the pool
\* untouched.
C14_HealthCheckAndShutdown ==
  /\ [](/\ \A c \in StartCalls :
             /\ pc[c] = "super" => nAcquired[c] = 0 /\ sent[c] = <<>>
             /\ (pc[c] = "returned" /\ error[c] = Undefined) =>
                  /\ nAcquired[c] = 1 /\ nReleased[c] = 1
                  /\ Len(sent[c]) = 1 /\ sent[c][1][2] = Ping
        /\ \A c \in StopCalls :
             (pc[c] = "returned" /\ error[c] = Undefined) => IsNull(pool))
  /\ [][\A c \in Callers :
          (op[c] = "status" /\ pc[c] = "super" /\ IsNull(pool)
             /\ pc'[c] # "super") =>
            /\ pc'[c] = "returned"
            /\ result'[c].active = FALSE
            /\ result'[c].message = PoolNotInitialized
            /\ nAcquired'[c] = 0
            /\ pool' = pool]_vars

\* a state of C14: stop returned after the pool ended, and a status call
\* returned active = false with nothing acquired
C14_Witness ==
  \E c \in StopCalls, d \in StatusCalls :
    /\ pc[c] = "returned" /\ error[c] = Undefined
    /\ IsNull(pool)
    /\ pc[d] = "returned" /\ result[d].active = FALSE
    /\ result[d].message = PoolNotInitialized
    /\ nAcquired[d] = 0

\* C20: in the variant, the step that starts executeSql with an empty or
\* missing sqlQuery, or showSchema with an empty or missing databaseName,
\* ends the call with the error of the missing argument and leaves the pool
\* as it was, with nothing acquired.
C20_MissingArgumentRaisesFirst ==
  [][\A c \in Callers :
       (/\ pc[c] = "idle" /\ pc'[c] # "idle"
        /\ \/ op'[c] = "executeSql" /\ sqlQuery'[c] \in {"", "undefined"}
           \/ op'[c] = "showSchema" /\ databaseName'[c] \in {"", "undefined"}) =>
         /\ pc'[c] = "threw"
         /\ error'[c] = (IF op'[c] = "executeSql"
                           THEN "sqlQuery is required for executeSql."
                           ELSE "databaseName is required to show schema.")
         /\ pool' = pool
         /\ nAcquired'[c] = 0 /\ connection'[c] = NoConnection]_vars

\* a state of C20: executeSql without a query and showSchema without a
\* database name have both raised on a provider whose pool is intact
C20_Witness ==
  /\ ~IsNull(pool) /\ ~pool.closed /\ pool.queue = <<>>
  /\ \E c \in Callers, d \in Callers :
       /\ op[c] = "executeSql" /\ pc[c] = "threw" /\ error[c] = SqlQueryRequired
       /\ op[d] = "showSchema" /\ pc[d] = "threw"
       /\ error[d] = DatabaseNameRequired
       /\ nAcquired[c] = 0 /\ nAcquired[d] = 0

\* C21: in the variant, a call that has ended has released every connection
\* it acquired, whichever way it ended, so that no connection is checked out
\* once every call made has ended.
C21_VariantReleasesOnEveryPath ==
  /\ \A c \in Callers : Finished(c) => nReleased[c] = nAcquired[c]
  /\ (~IsNull(pool) /\ \A c \in Callers : pc[c] = "idle" \/ Finished(c)) =>
       pool.closed \/ CheckedOut(pool) = 0

\* C22: in the variant, every connection idle in the pool has the
\* configured databaseName selected, and every statement executeSql submits
\* runs on a connection that has it selected.
C22_IdleConnectionsOnConfiguredDatabase ==
  /\ ~IsNull(pool) =>
       \A i \in 1..Len(pool.free) : connDb[pool.free[i]] = props.databaseName
  /\ \A c \in Callers : op[c] = "executeSql" =>
       \A i \in 1..Len(sent[c]) : sent[c][i][3] = props.databaseName

====
